---- MODULE Spec2Model ----
(***************************************************************************)
(* Model of the vector-store pipeline of langchaingo:                      *)
(*   vectorstores/qdrant/qdrant.go  Store.AddDocuments, SimilaritySearch,  *)
(*                                  PayloadSearch and their helpers        *)
(*   redisvector                    IndexVectorSearch.AsMetadataSearchCommand *)
(* A public operation runs as a sequence of steps that are split at its    *)
(* external calls (embedder, backend RPC): the step that issues the call,  *)
(* and the step that continues with what the call returned.                *)
(***************************************************************************)
EXTENDS Integers, Sequences, FiniteSets, TLC

(* ------------------------------ bounds --------------------------------- *)
MaxDocs == 2
MaxPoints == 2

(* ------------------------------ values --------------------------------- *)
PageContents == {"a", "b"}
MetaKeys == {"job"}
MetaValues == {"engineer"}
ContentKeys == {"content", "job"}
Queries == {"q"}
\* the embedder: the vector of a text, and the vector of a text it made up
EmbeddingOf == [t \in PageContents \cup Queries |-> "vec:" \o t]
StrayVector == "vec:?"
NumResults == {1, 3}
FilterVals == {"f1", "f2"}
ExternalErrors == {"context canceled", "upstream failure"}

NoErr == "nil"
ErrLengthMismatch == "number of vectors from embedder does not match number of documents"
ErrScoreThreshold == "score threshold must be between 0 and 1"

\* A Go slice result: the nil slice is kept apart from an empty one.
NilSlice == [isNil |-> TRUE, elems |-> <<>>]
Slice(s) == [isNil |-> FALSE, elems |-> s]

\* map[string]interface{} as a function on its key set
EmptyMap == [k \in {} |-> ""]
MapSet(m, k, v) == [x \in DOMAIN m \cup {k} |-> IF x = k THEN v ELSE m[x]]
MapWithout(m, k) == [x \in DOMAIN m \ {k} |-> m[x]]
MetadataMaps == UNION {[K -> MetaValues] : K \in SUBSET MetaKeys}

\* schema.Document by value: the caller's view of a document
DocValues == [PageContent : PageContents, Metadata : MetadataMaps]
Batches == UNION {[1..n -> DocValues] : n \in 0..MaxDocs}

\* float32: tenths of a unit, and NaN
Float(t) == [nan |-> FALSE, v |-> t]
NaN == [nan |-> TRUE, v |-> 0]
FloatLess(a, b) == ~a.nan /\ ~b.nan /\ a.v < b.v
ScoreThresholds == {Float(0 - 1), Float(0), Float(5), Float(10), Float(15), NaN}

\* Options.Filters (any): nil or an opaque value
NilFilter == [isNil |-> TRUE, val |-> ""]
Filter(f) == [isNil |-> FALSE, val |-> f]

\* Options.Deduplicater: nil or a predicate; the predicates are content
\* look-ups, "is this PageContent already stored"
NilDeduplicater == [isNil |-> TRUE, dup |-> {}]
Deduplicater(D) == [isNil |-> FALSE, dup |-> D]
DeduplicaterCall(pred, doc) == doc.PageContent \in pred.dup

(* ------------------------------ options -------------------------------- *)
\* vectorstores.Options{} : the zero value
ZeroOptions ==
    [ScoreThreshold |-> Float(0), Filters |-> NilFilter, Deduplicater |-> NilDeduplicater]

WithScoreThreshold(t) == [kind |-> "ScoreThreshold", arg |-> [ZeroOptions EXCEPT !.ScoreThreshold = t]]
WithFilters(f) == [kind |-> "Filters", arg |-> [ZeroOptions EXCEPT !.Filters = f]]
WithDeduplicater(d) == [kind |-> "Deduplicater", arg |-> [ZeroOptions EXCEPT !.Deduplicater = d]]

\* opt(&opts): an option sets its own field
ApplyOption(opt, o) ==
    CASE opt.kind = "ScoreThreshold" -> [o EXCEPT !.ScoreThreshold = opt.arg.ScoreThreshold]
      [] opt.kind = "Filters"        -> [o EXCEPT !.Filters = opt.arg.Filters]
      [] opt.kind = "Deduplicater"   -> [o EXCEPT !.Deduplicater = opt.arg.Deduplicater]

RECURSIVE getOptionsLoop(_, _, _)
getOptionsLoop(options, i, o) ==
    IF i > Len(options) THEN o
    ELSE getOptionsLoop(options, i + 1, ApplyOption(options[i], o))

getOptions(options) == getOptionsLoop(options, 1, ZeroOptions)

getScoreThreshold(o) ==
    IF FloatLess(o.ScoreThreshold, Float(0)) \/ FloatLess(Float(10), o.ScoreThreshold)
    THEN [value |-> Float(0), err |-> ErrScoreThreshold]
    ELSE [value |-> o.ScoreThreshold, err |-> NoErr]

\* a faulty variant of getFilters: the caller's filter is dropped
getFilters_Dropped(o) == NilFilter

getFilters(o) == IF ~o.Filters.isNil THEN o.Filters ELSE NilFilter

\* a faulty variant of Failed: errors are not looked at
Failed_Ignored(err) == FALSE

\* if err != nil
Failed(err) == err # NoErr

\* a faulty variant of NothingToAdd: the empty batch goes on to the embedder
NothingToAdd_Never(ds) == FALSE

\* if len(docs) == 0
NothingToAdd(ds) == Len(ds) = 0

\* a faulty variant of LengthMismatch: surplus vectors are let through
LengthMismatch_Fewer(vs, ds) == Len(vs) < Len(ds)

\* if len(vectors) != len(docs)
LengthMismatch(vs, ds) == Len(vs) # Len(ds)

(* ---------------------------- deduplicate ------------------------------ *)
\* a faulty variant of deduplicateLoop: the duplicates are the ones kept
RECURSIVE deduplicateLoop_Inverted(_, _, _, _)
deduplicateLoop_Inverted(pred, ds, i, acc) ==
    IF i > Len(ds) THEN acc
    ELSE deduplicateLoop_Inverted(pred, ds, i + 1,
            [filtered |-> IF DeduplicaterCall(pred, ds[i])
                          THEN Append(acc.filtered, ds[i]) ELSE acc.filtered,
             invoked  |-> Append(acc.invoked, ds[i])])

RECURSIVE deduplicateLoop(_, _, _, _)
deduplicateLoop(pred, ds, i, acc) ==
    IF i > Len(ds) THEN acc
    ELSE deduplicateLoop(pred, ds, i + 1,
            [filtered |-> IF ~DeduplicaterCall(pred, ds[i])
                          THEN Append(acc.filtered, ds[i]) ELSE acc.filtered,
             invoked  |-> Append(acc.invoked, ds[i])])

\* filtered: the slice returned; invoked: the documents handed to the predicate
deduplicate(o, ds) ==
    IF o.Deduplicater.isNil THEN [filtered |-> ds, invoked |-> <<>>]
    ELSE deduplicateLoop(o.Deduplicater, ds, 1, [filtered |-> <<>>, invoked |-> <<>>])

(* ------------------------- payload construction ------------------------ *)
\* a faulty variant of MakeMap: the document's own map is written to
MakeMap_Aliased(h, d) == [id |-> d.Metadata, heap |-> h]

\* make(map[string]interface{}, n): a fresh map of the heap
MakeMap(h, d) == [id |-> Len(h) + 1, heap |-> Append(h, EmptyMap)]

\* a faulty variant of CopyMap: nothing is copied
CopyMap_Nothing(dst, src) == dst

\* for key, value := range src { dst[key] = value }
CopyMap(dst, src) ==
    [x \in DOMAIN dst \cup DOMAIN src |-> IF x \in DOMAIN src THEN src[x] ELSE dst[x]]

\* a faulty variant of buildMetadatas: every payload gets the first text
RECURSIVE buildMetadatas_FirstText(_, _, _, _, _)
buildMetadatas_FirstText(ds, ts, ck, i, acc) ==
    IF i > Len(ds) THEN acc
    ELSE LET m  == MakeMap(acc.heap, ds[i])
             h1 == [m.heap EXCEPT ![m.id] = CopyMap(m.heap[m.id], m.heap[ds[i].Metadata])]
             h2 == [h1 EXCEPT ![m.id] = MapSet(h1[m.id], ck, ts[1])]
         IN  buildMetadatas_FirstText(ds, ts, ck, i + 1,
                 [heap |-> h2, metadatas |-> Append(acc.metadatas, m.id)])

RECURSIVE buildMetadatas(_, _, _, _, _)
buildMetadatas(ds, ts, ck, i, acc) ==
    IF i > Len(ds) THEN acc
    ELSE LET m  == MakeMap(acc.heap, ds[i])
             h1 == [m.heap EXCEPT ![m.id] = CopyMap(m.heap[m.id], m.heap[ds[i].Metadata])]
             h2 == [h1 EXCEPT ![m.id] = MapSet(h1[m.id], ck, ts[i])]
         IN  buildMetadatas(ds, ts, ck, i + 1,
                 [heap |-> h2, metadatas |-> Append(acc.metadatas, m.id)])

\* the documents a caller holds, read through the heap
Deref(ds, h) ==
    [i \in 1..Len(ds) |-> [PageContent |-> ds[i].PageContent, Metadata |-> h[ds[i].Metadata]]]

(* ------------------------------- state --------------------------------- *)
VARIABLES
    contentKey,     \* Store.contentKey
    points,         \* the backend collection: stored payloads
    pc,             \* "idle", "returned", or the external call being awaited
    op,             \* the public operation invoked
    heap,           \* the metadata maps, by reference
    docs,           \* the caller's documents (Metadata is a heap reference)
    docsBefore,     \* the caller's documents by value, as they were at the call
    opts,           \* the resolved options
    filtered,       \* AddDocuments: docs after deduplicate
    invoked,        \* AddDocuments: documents handed to the Deduplicater
    texts,          \* AddDocuments: texts
    vectors,        \* AddDocuments: what EmbedDocuments returned
    metadatas,      \* AddDocuments: metadatas (heap references)
    query,          \* SimilaritySearch: query
    numDocuments,   \* SimilaritySearch, PayloadSearch: numDocuments
    search,         \* AsMetadataSearchCommand: the caller's IndexVectorSearch
    calls,          \* the external calls issued by this invocation
    callErrs,       \* the error each finished external call returned
    rpcResult,      \* what the backend RPC of this invocation returned
    hitSrc,         \* the documents whose stored points the backend returned
    ret             \* what the operation returned

vars == <<contentKey, points, pc, op, heap, docs, docsBefore, opts, filtered,
          invoked, texts, vectors, metadatas, query, numDocuments, search,
          calls, callErrs, rpcResult, hitSrc, ret>>

\* the locals of an AddDocuments invocation
addVars == <<heap, docs, docsBefore, filtered, invoked, texts, vectors, metadatas>>

NoRet == [vals |-> NilSlice, err |-> NoErr]

\* IndexVectorSearch{}
ZeroSearch == [index |-> "", preFilters |-> "", returns |-> <<>>, offset |-> 0, limit |-> 0]

Init ==
    /\ contentKey \in ContentKeys
    /\ points = {}
    /\ pc = "idle"
    /\ op = "none"
    /\ heap = <<>>
    /\ docs = <<>>
    /\ docsBefore = <<>>
    /\ opts = ZeroOptions
    /\ filtered = <<>>
    /\ invoked = <<>>
    /\ texts = <<>>
    /\ vectors = NilSlice
    /\ metadatas = <<>>
    /\ query = ""
    /\ numDocuments = 0
    /\ search = ZeroSearch
    /\ calls = <<>>
    /\ callErrs = <<>>
    /\ rpcResult = NoRet
    /\ hitSrc = <<>>
    /\ ret = NoRet

(* ---------------------------- AddDocuments ----------------------------- *)
AddOptions ==
    {WithDeduplicater(Deduplicater(D)) : D \in SUBSET PageContents}
        \cup {WithDeduplicater(NilDeduplicater)}
\* the variadic option lists tried: none, one option, two options
OptionLists(pool) == {<<>>} \cup {<<a>> : a \in pool} \cup {<<a, b>> : a, b \in pool}

\* AddDocuments up to its EmbedDocuments call
AddDocuments(batch, options) ==
    LET o  == getOptions(options)
        ds == [i \in 1..Len(batch) |-> [PageContent |-> batch[i].PageContent, Metadata |-> i]]
        dd == deduplicate(o, ds)
        ts == [i \in 1..Len(dd.filtered) |-> dd.filtered[i].PageContent]
    IN  /\ pc = "idle"
        /\ op' = "AddDocuments"
        /\ heap' = [i \in 1..Len(batch) |-> batch[i].Metadata]
        /\ docs' = ds
        /\ docsBefore' = batch
        /\ opts' = o
        /\ filtered' = dd.filtered
        /\ invoked' = dd.invoked
        /\ vectors' = NilSlice
        /\ metadatas' = <<>>
        /\ callErrs' = <<>>
        /\ IF NothingToAdd(dd.filtered)
           THEN /\ texts' = <<>>
                /\ calls' = <<>>
                /\ ret' = [vals |-> NilSlice, err |-> NoErr]
                /\ pc' = "returned"
           ELSE /\ texts' = ts
                /\ calls' = <<[name |-> "EmbedDocuments", texts |-> ts]>>
                /\ ret' = NoRet
                /\ pc' = "EmbedDocuments"
        /\ UNCHANGED <<contentKey, points, query, numDocuments, search, rpcResult, hitSrc>>

\* what EmbedDocuments may hand back for the texts it was given
EmbedDocumentsResults(ts) ==
    {[vectors |-> NilSlice, err |-> e] : e \in ExternalErrors}
        \cup {[vectors |-> Slice([i \in 1..n |->
                                     IF i <= Len(ts) THEN EmbeddingOf[ts[i]] ELSE StrayVector]),
                err |-> NoErr] : n \in 0..(Len(ts) + 1)}

\* AddDocuments from the return of EmbedDocuments up to its upsertPoints call
AddDocumentsEmbedded(r) ==
    /\ pc = "EmbedDocuments"
    /\ vectors' = r.vectors
    /\ callErrs' = Append(callErrs, r.err)
    /\ IF Failed(r.err)
       THEN /\ ret' = [vals |-> NilSlice, err |-> r.err]
            /\ pc' = "returned"
            /\ UNCHANGED <<heap, metadatas, calls>>
       ELSE IF LengthMismatch(r.vectors.elems, filtered)
       THEN /\ ret' = [vals |-> NilSlice, err |-> ErrLengthMismatch]
            /\ pc' = "returned"
            /\ UNCHANGED <<heap, metadatas, calls>>
       ELSE LET b == buildMetadatas(filtered, texts, contentKey, 1,
                                    [heap |-> heap, metadatas |-> <<>>])
            IN  /\ heap' = b.heap
                /\ metadatas' = b.metadatas
                /\ calls' = Append(calls,
                       [name |-> "upsertPoints",
                        vectors |-> r.vectors.elems,
                        payloads |-> [i \in 1..Len(b.metadatas) |-> b.heap[b.metadatas[i]]]])
                /\ ret' = NoRet
                /\ pc' = "upsertPoints"
    /\ UNCHANGED <<contentKey, points, op, docs, docsBefore, opts, filtered, invoked,
                   texts, query, numDocuments, search, rpcResult, hitSrc>>

\* the points an upsert writes: the payload, and the document it was built for
UpsertedPoints(call) ==
    {[payload |-> call.payloads[i], doc |-> docsBefore[filtered[i].Metadata]] :
        i \in 1..Len(call.payloads)}

\* upsertPoints returns: the ids the backend assigned, or the RPC error
upsertPointsResults(call) ==
    {[vals |-> NilSlice, err |-> e, points |-> points] : e \in ExternalErrors}
        \cup {[vals |-> Slice([i \in 1..Len(call.vectors) |-> i]), err |-> NoErr,
               points |-> points \cup UpsertedPoints(call)] :
                x \in {y \in {1} : Cardinality(points \cup UpsertedPoints(call)) <= MaxPoints}}

\* return s.upsertPoints(ctx, &s.qdrantURL, vectors, metadatas)
AddDocumentsUpserted ==
    /\ pc = "upsertPoints"
    /\ \E r \in upsertPointsResults(calls[Len(calls)]) :
          /\ points' = r.points
          /\ callErrs' = Append(callErrs, r.err)
          /\ rpcResult' = [vals |-> r.vals, err |-> r.err]
          /\ ret' = [vals |-> r.vals, err |-> r.err]
    /\ pc' = "returned"
    /\ UNCHANGED <<contentKey, op, opts, addVars, query, numDocuments, search, calls, hitSrc>>

(* -------------------------- SimilaritySearch --------------------------- *)
SearchOptions ==
    {WithScoreThreshold(t) : t \in ScoreThresholds}
        \cup {WithFilters(Filter(f)) : f \in FilterVals}
        \cup {WithFilters(NilFilter)}

\* SimilaritySearch up to its EmbedQuery call
SimilaritySearch(q, n, options) ==
    LET o  == getOptions(options)
        st == getScoreThreshold(o)
    IN  /\ pc = "idle"
        /\ op' = "SimilaritySearch"
        /\ opts' = o
        /\ query' = q
        /\ numDocuments' = n
        /\ callErrs' = <<>>
        /\ IF Failed(st.err)
           THEN /\ calls' = <<>>
                /\ ret' = [vals |-> NilSlice, err |-> st.err]
                /\ pc' = "returned"
           ELSE /\ calls' = <<[name |-> "EmbedQuery", text |-> q]>>
                /\ ret' = NoRet
                /\ pc' = "EmbedQuery"
        /\ UNCHANGED <<contentKey, points, addVars, search, rpcResult, hitSrc>>

EmbedQueryResults ==
    {[vector |-> "none", err |-> e] : e \in ExternalErrors}
        \cup {[vector |-> EmbeddingOf[query], err |-> NoErr]}

\* SimilaritySearch from the return of EmbedQuery up to its searchPoints call
SimilaritySearchEmbedded(r) ==
    /\ pc = "EmbedQuery"
    /\ callErrs' = Append(callErrs, r.err)
    /\ IF Failed(r.err)
       THEN /\ ret' = [vals |-> NilSlice, err |-> r.err]
            /\ pc' = "returned"
            /\ UNCHANGED calls
       ELSE /\ calls' = Append(calls,
                   [name |-> "searchPoints",
                    vector |-> r.vector,
                    numDocuments |-> numDocuments,
                    scoreThreshold |-> getScoreThreshold(opts).value,
                    filter |-> getFilters(opts)])
            /\ ret' = NoRet
            /\ pc' = "searchPoints"
    /\ UNCHANGED <<contentKey, points, op, opts, addVars, query, numDocuments, search,
                   rpcResult, hitSrc>>

\* a backend hit becomes a Document: the content-key field is the
\* PageContent, the remaining payload fields are the Metadata
HitToDocument(payload, ck) ==
    [PageContent |-> IF ck \in DOMAIN payload THEN payload[ck] ELSE "",
     Metadata    |-> MapWithout(payload, ck)]

\* the hit lists a backend holding ps may answer with, at most n long
HitLists(ps, n) ==
    {h \in UNION {[1..k -> ps] : k \in 0..Cardinality(ps)} :
        /\ Len(h) <= n
        /\ \A i, j \in 1..Len(h) : i # j => h[i] # h[j]}

\* searchPoints and scroll return: the hits as Documents, or the RPC error
searchResults(n) ==
    {[vals |-> NilSlice, err |-> e, src |-> <<>>] : e \in ExternalErrors}
        \cup {[vals |-> Slice([i \in 1..Len(h) |-> HitToDocument(h[i].payload, contentKey)]),
               err |-> NoErr,
               src |-> [i \in 1..Len(h) |-> h[i].doc]] : h \in HitLists(points, n)}

\* return s.searchPoints(ctx, &s.qdrantURL, vector, numDocuments, scoreThreshold, filters)
SimilaritySearchSearched(r) ==
    /\ pc = "searchPoints"
    /\ callErrs' = Append(callErrs, r.err)
    /\ rpcResult' = [vals |-> r.vals, err |-> r.err]
    /\ hitSrc' = r.src
    /\ ret' = [vals |-> r.vals, err |-> r.err]
    /\ pc' = "returned"
    /\ UNCHANGED <<contentKey, points, op, opts, addVars, query, numDocuments, search, calls>>

(* ---------------------------- PayloadSearch ---------------------------- *)
\* a faulty variant of scrollRequest: the caller's numDocuments is not passed on
scrollRequest_OneMore(n, f) == [name |-> "scroll", numDocuments |-> n + 1, filter |-> f]

\* s.scroll(ctx, &s.qdrantURL, numDocuments, filters): the request
scrollRequest(n, f) == [name |-> "scroll", numDocuments |-> n, filter |-> f]

\* PayloadSearch up to its scroll call
PayloadSearch(n, options) ==
    LET o == getOptions(options)
    IN  /\ pc = "idle"
        /\ op' = "PayloadSearch"
        /\ opts' = o
        /\ numDocuments' = n
        /\ callErrs' = <<>>
        /\ calls' = <<scrollRequest(n, getFilters(o))>>
        /\ ret' = NoRet
        /\ pc' = "scroll"
        /\ UNCHANGED <<contentKey, points, addVars, query, search, rpcResult, hitSrc>>

\* return s.scroll(ctx, &s.qdrantURL, numDocuments, filters)
PayloadSearchScrolled(r) ==
    /\ pc = "scroll"
    /\ callErrs' = Append(callErrs, r.err)
    /\ rpcResult' = [vals |-> r.vals, err |-> r.err]
    /\ hitSrc' = r.src
    /\ ret' = [vals |-> r.vals, err |-> r.err]
    /\ pc' = "returned"
    /\ UNCHANGED <<contentKey, points, op, opts, addVars, query, numDocuments, search, calls>>

(* ---------------------- AsMetadataSearchCommand ------------------------ *)
DigitStr == <<"0", "1", "2", "3", "4", "5", "6", "7", "8", "9">>

RECURSIVE ItoaNat(_)
ItoaNat(n) ==
    IF n < 10 THEN DigitStr[n + 1] ELSE ItoaNat(n \div 10) \o DigitStr[(n % 10) + 1]

\* strconv.Itoa
Itoa(n) == IF n < 0 THEN "-" \o ItoaNat(0 - n) ELSE ItoaNat(n)

\* the command built from the receiver s (a copy: the receiver is a value)
MetadataSearchCommand(s) ==
    LET s1     == IF s.limit = 0 THEN [s EXCEPT !.limit = 1] ELSE s
        filter == IF s1.preFilters # "" THEN s1.preFilters ELSE "*"
        cmd1   == <<"FT.SEARCH", s1.index, filter>>
        cmd2   == IF Len(s1.returns) > 0
                  THEN cmd1 \o <<"RETURN", Itoa(Len(s1.returns))>> \o s1.returns
                  ELSE cmd1
    IN  cmd2 \o <<"DIALECT", "2">> \o <<"LIMIT", Itoa(s1.offset), Itoa(s1.limit)>>

IndexVectorSearches ==
    [index      : {"users"},
     preFilters : {"", "@job:(engineer)"},
     returns    : {<<>>, <<"content">>, <<"content", "job">>},
     offset     : {0, 12},
     limit      : {0, 3}]

AsMetadataSearchCommand(s) ==
    /\ pc = "idle"
    /\ op' = "AsMetadataSearchCommand"
    /\ search' = s
    /\ calls' = <<>>
    /\ callErrs' = <<>>
    /\ ret' = [vals |-> Slice(MetadataSearchCommand(s)), err |-> NoErr]
    /\ pc' = "returned"
    /\ UNCHANGED <<contentKey, points, opts, addVars, query, numDocuments, rpcResult, hitSrc>>

(* ------------------------------- return -------------------------------- *)
\* The operation has returned: its locals and per-call options are gone, the
\* Store (a value receiver) is as it was, and the next call can be made.
Return ==
    /\ pc = "returned"
    /\ pc' = "idle"
    /\ op' = "none"
    /\ heap' = <<>>
    /\ docs' = <<>>
    /\ docsBefore' = <<>>
    /\ opts' = ZeroOptions
    /\ filtered' = <<>>
    /\ invoked' = <<>>
    /\ texts' = <<>>
    /\ vectors' = NilSlice
    /\ metadatas' = <<>>
    /\ query' = ""
    /\ numDocuments' = 0
    /\ search' = ZeroSearch
    /\ calls' = <<>>
    /\ callErrs' = <<>>
    /\ rpcResult' = NoRet
    /\ hitSrc' = <<>>
    /\ ret' = NoRet
    /\ UNCHANGED <<contentKey, points>>

Next ==
    \/ pc = "idle" /\ \E batch \in Batches, options \in OptionLists(AddOptions) :
          AddDocuments(batch, options)
    \/ pc = "EmbedDocuments" /\ \E r \in EmbedDocumentsResults(texts) : AddDocumentsEmbedded(r)
    \/ AddDocumentsUpserted
    \/ pc = "idle" /\ \E q \in Queries, n \in NumResults, options \in OptionLists(SearchOptions) :
          SimilaritySearch(q, n, options)
    \/ pc = "EmbedQuery" /\ \E r \in EmbedQueryResults : SimilaritySearchEmbedded(r)
    \/ pc = "searchPoints" /\ \E r \in searchResults(numDocuments) : SimilaritySearchSearched(r)
    \/ pc = "idle" /\ \E n \in NumResults, options \in OptionLists(SearchOptions) :
          PayloadSearch(n, options)
    \/ pc = "scroll" /\ \E r \in searchResults(numDocuments) : PayloadSearchScrolled(r)
    \/ pc = "idle" /\ \E s \in IndexVectorSearches : AsMetadataSearchCommand(s)
    \/ Return

Spec == Init /\ [][Next]_vars

(* =============================== claims ================================ *)
Called(n) == \E i \in 1..Len(calls) : calls[i].name = n
CallsOf(n) == {i \in 1..Len(calls) : calls[i].name = n}

\* the documents of the batch that the configured predicate does not drop
Surviving ==
    IF opts.Deduplicater.isNil THEN docsBefore
    ELSE SelectSeq(docsBefore, LAMBDA d : ~DeduplicaterCall(opts.Deduplicater, d))

\* EmbedDocuments has returned, and without error
EmbeddedOk == op = "AddDocuments" /\ Len(callErrs) >= 1 /\ callErrs[1] = NoErr

\* C1: when EmbedDocuments returns without error a number of vectors that
\* differs from the number of surviving documents, AddDocuments returns the
\* length-mismatch error with no ids and never calls the upsert RPC.
C1_LengthMismatchAborts ==
    (EmbeddedOk /\ Len(vectors.elems) # Len(Surviving))
        => /\ pc = "returned"
           /\ ret = [vals |-> NilSlice, err |-> ErrLengthMismatch]
           /\ ~Called("upsertPoints")

C1_Witness ==
    /\ EmbeddedOk
    /\ Len(vectors.elems) > Len(Surviving)
    /\ ret.err = ErrLengthMismatch

\* C2: when the Deduplicater drops every document of the batch, or the batch
\* is empty, AddDocuments returns (nil, nil) and calls neither the embedder
\* nor the upsert RPC.
C2_AllDuplicatesIsNoOp ==
    (/\ op = "AddDocuments"
     /\ \/ docsBefore = <<>>
        \/ /\ ~opts.Deduplicater.isNil
           /\ \A i \in 1..Len(docsBefore) : DeduplicaterCall(opts.Deduplicater, docsBefore[i]))
        => /\ pc = "returned"
           /\ ret = [vals |-> NilSlice, err |-> NoErr]
           /\ calls = <<>>

C2_Witness ==
    /\ op = "AddDocuments"
    /\ Len(docsBefore) = 2
    /\ ~opts.Deduplicater.isNil
    /\ \A i \in 1..Len(docsBefore) : DeduplicaterCall(opts.Deduplicater, docsBefore[i])
    /\ pc = "returned"

\* t lies in [0, 1]
InUnitInterval(t) == ~t.nan /\ 0 <= t.v /\ t.v <= 10
BelowZeroOrAboveOne(t) == ~t.nan /\ (t.v < 0 \/ t.v > 10)

\* C3: a SimilaritySearch whose scoreThreshold is below 0 or above 1 returns
\* the validation error without calling EmbedQuery or the search RPC, and
\* whenever the search RPC is called its threshold lies in [0, 1] and is the
\* resolved option value.
C3_ThresholdValidated ==
    /\ (op = "SimilaritySearch" /\ BelowZeroOrAboveOne(opts.ScoreThreshold))
          => /\ pc = "returned"
             /\ ret = [vals |-> NilSlice, err |-> ErrScoreThreshold]
             /\ calls = <<>>
    /\ \A i \in CallsOf("searchPoints") :
          /\ InUnitInterval(calls[i].scoreThreshold)
          /\ calls[i].scoreThreshold = opts.ScoreThreshold

\* C4: whenever AddDocuments calls the upsert RPC, the vectors, the payloads
\* and the surviving documents are equally many, the text embedded at i is
\* the PageContent of surviving document i, and payload i is that document's
\* Metadata with the content key mapped to its PageContent.
C4_UpsertIsPositional ==
    \A u \in CallsOf("upsertPoints") :
        /\ Len(calls[u].vectors) = Len(Surviving)
        /\ Len(calls[u].payloads) = Len(Surviving)
        /\ calls[1].name = "EmbedDocuments"
        /\ Len(calls[1].texts) = Len(Surviving)
        /\ \A i \in 1..Len(Surviving) :
              /\ calls[1].texts[i] = Surviving[i].PageContent
              /\ calls[u].payloads[i] =
                    MapSet(Surviving[i].Metadata, contentKey, Surviving[i].PageContent)

C4_Witness ==
    /\ Called("upsertPoints")
    /\ Len(Surviving) = 2
    /\ Surviving[1].PageContent # Surviving[2].PageContent
    /\ Surviving[1].Metadata # Surviving[2].Metadata

\* C5: in AddDocuments and SimilaritySearch, once an external call returns
\* an error (a cancellation included) the invocation returns that error with
\* no documents or ids and has made no further external call; no external
\* call is made twice.
C5_ErrorsAreTerminal ==
    (op \in {"AddDocuments", "SimilaritySearch"})
        => /\ \A i \in 1..Len(callErrs) :
                 callErrs[i] # NoErr
                    => /\ Len(calls) = i
                       /\ pc = "returned"
                       /\ ret = [vals |-> NilSlice, err |-> callErrs[i]]
           /\ \A i, j \in 1..Len(calls) : i # j => calls[i].name # calls[j].name

C5_Witness ==
    /\ op = "AddDocuments"
    /\ Len(callErrs) = 1
    /\ callErrs[1] = "context canceled"
    /\ pc = "returned"

\* s is t with some elements left out, the others in their order
RECURSIVE IsSubsequence(_, _)
IsSubsequence(s, t) ==
    IF s = <<>> THEN TRUE
    ELSE IF t = <<>> THEN FALSE
    ELSE IF Head(s) = Head(t) THEN IsSubsequence(Tail(s), Tail(t))
    ELSE IsSubsequence(s, Tail(t))

\* C6: deduplicate returns the input documents for which the predicate is
\* false, in input order, having called the predicate once per input document
\* in input order; with no predicate it returns the input unchanged. The
\* result is never longer than the input and holds only input documents.
C6_DeduplicateIsFilter ==
    (op = "AddDocuments")
        => /\ IF opts.Deduplicater.isNil
              THEN filtered = docs /\ invoked = <<>>
              ELSE /\ filtered = SelectSeq(docs, LAMBDA d : ~DeduplicaterCall(opts.Deduplicater, d))
                   /\ invoked = docs
           /\ Len(filtered) <= Len(docs)
           /\ IsSubsequence(filtered, docs)

C6_Witness ==
    /\ op = "AddDocuments"
    /\ ~opts.Deduplicater.isNil
    /\ Len(docs) = 2
    /\ Len(filtered) = 1
    /\ filtered[1] = docs[2]

\* C7: the payload built for a document holds the keys of its Metadata with
\* their values, but the content key mapped to its PageContent, and no other
\* key; and the caller's Metadata maps are after the call what they were
\* before it.
C7_PayloadIsCopy ==
    (op = "AddDocuments")
        => /\ Deref(docs, heap) = docsBefore
           /\ \A i \in 1..Len(metadatas) :
                 LET p == heap[metadatas[i]]
                     d == Surviving[i]
                 IN  /\ DOMAIN p = DOMAIN d.Metadata \cup {contentKey}
                     /\ p[contentKey] = d.PageContent
                     /\ \A k \in DOMAIN d.Metadata \ {contentKey} : p[k] = d.Metadata[k]

C7_Witness ==
    /\ op = "AddDocuments"
    /\ Len(metadatas) = 2
    /\ contentKey \in DOMAIN docsBefore[filtered[1].Metadata].Metadata
    /\ pc = "returned"

\* the filter a request carries when the caller set none: no condition,
\* which the backend answers with every point
MatchAll == NilFilter

\* C8: the filter that reaches the backend is the caller's filter when one
\* is set and the match-everything filter when none is: for the search RPC
\* of SimilaritySearch, for the scroll RPC of PayloadSearch, and ("*" being
\* the wildcard) for the query term of AsMetadataSearchCommand.
C8_FilterOrWildcard ==
    /\ \A i \in CallsOf("searchPoints") \cup CallsOf("scroll") :
          calls[i].filter = IF opts.Filters.isNil THEN MatchAll ELSE opts.Filters
    /\ (op = "AsMetadataSearchCommand")
          => ret.vals.elems[3] = IF search.preFilters = "" THEN "*" ELSE search.preFilters

C8_Witness ==
    /\ op = "SimilaritySearch"
    /\ Called("searchPoints")
    /\ opts.Filters.isNil
    /\ calls[2].filter = MatchAll

\* a SimilaritySearch has returned the hits of the backend
SearchHits == op = "SimilaritySearch" /\ pc = "returned" /\ ret.err = NoErr

\* C9 as stated: every document returned by SimilaritySearch for a point
\* that AddDocuments stored equals the document stored, PageContent and
\* Metadata, also when the Metadata holds the content key.
C9_RoundTripAsStated ==
    SearchHits => \A i \in 1..Len(ret.vals.elems) : ret.vals.elems[i] = hitSrc[i]

\* C9: every document returned by SimilaritySearch for a point that
\* AddDocuments stored has the PageContent of the document stored and its
\* Metadata without the content key: the Metadata stored, whenever that does
\* not hold the content key.
C9_RoundTrip ==
    SearchHits
        => /\ Len(ret.vals.elems) = Len(hitSrc)
           /\ \A i \in 1..Len(hitSrc) :
                 /\ ret.vals.elems[i].PageContent = hitSrc[i].PageContent
                 /\ ret.vals.elems[i].Metadata = MapWithout(hitSrc[i].Metadata, contentKey)
                 /\ (contentKey \notin DOMAIN hitSrc[i].Metadata)
                       => ret.vals.elems[i] = hitSrc[i]

C9_Witness ==
    /\ SearchHits
    /\ Len(hitSrc) = 2
    /\ hitSrc[1].Metadata # EmptyMap
    /\ contentKey \notin DOMAIN hitSrc[1].Metadata

\* C10: PayloadSearch issues one scroll RPC, with the caller's numDocuments
\* and the resolved filter, and no embedder call; a scoreThreshold outside
\* [0, 1] does not stop it; what the scroll returns is what it returns.
C10_PayloadSearchScrollsOnce ==
    (op = "PayloadSearch")
        => /\ pc \in {"scroll", "returned"}
           /\ Len(calls) = 1
           /\ calls[1].name = "scroll"
           /\ calls[1].numDocuments = numDocuments
           /\ calls[1].filter = opts.Filters
           /\ (pc = "returned") => (Len(callErrs) = 1 /\ ret = rpcResult)

C10_Witness ==
    /\ op = "PayloadSearch"
    /\ pc = "returned"
    /\ BelowZeroOrAboveOne(opts.ScoreThreshold)
    /\ ret.err = NoErr
    /\ Len(ret.vals.elems) = 2
====
